---- MODULE Spec2Model ----
(***************************************************************************)
(* julia.py: the filled Julia set of f(z) = z^2 + c.                       *)
(*                                                                         *)
(* Numbers.  The program computes in floating point; the model computes    *)
(* the same expressions exactly, over the rationals.  A real is a record   *)
(* [n, d] (d > 0), a complex number a record [re, im, d] standing for      *)
(* (re + i*im)/d, both kept in lowest terms.  The parameters c are taken   *)
(* from values whose escape radius r is rational, so that sqrt is exact.   *)
(***************************************************************************)
EXTENDS Integers, Sequences, FiniteSets, TLC

\* ---- bounds of the model ------------------------------------------------
MaxRes == 5
MaxIter == 2

\* ---- exact arithmetic ---------------------------------------------------
Abs(a) == IF a < 0 THEN -a ELSE a

RECURSIVE Gcd(_, _)
Gcd(a, b) == IF b = 0 THEN a ELSE Gcd(b, a % b)

Lcm(a, b) == (a \div Gcd(a, b)) * b

\* the real n/d in lowest terms
Real(n, d) ==
    LET g == Gcd(Abs(n), d)
    IN  [n |-> n \div g, d |-> d \div g]

\* the complex number (re + i*im)/d in lowest terms
Complex(re, im, d) ==
    LET g == Gcd(Gcd(Abs(re), Abs(im)), d)
    IN  [re |-> re \div g, im |-> im \div g, d |-> d \div g]

\* a/b > c/d for a, c >= 0 and b, d > 0, by continued fractions (no product
\* is formed, so the comparison is exact for every operand of the model)
RECURSIVE FracGt(_, _, _, _)
FracGt(a, b, c, d) ==
    IF (a \div b) # (c \div d) THEN (a \div b) > (c \div d)
    ELSE IF a % b = 0 THEN FALSE
    ELSE IF c % d = 0 THEN TRUE
    ELSE FracGt(d, c % d, b, a % b)

\* sqrt of a perfect square
Isqrt(n) == CHOOSE k \in 0..n : k * k = n

\* math.sqrt of a real whose numerator and denominator are perfect squares
Sqrt(x) == Real(Isqrt(x.n), Isqrt(x.d))

\* abs(c) of a complex c with rational modulus
CAbs(z) == Real(Isqrt(z.re * z.re + z.im * z.im), z.d)

\* abs(z) > r:  re^2 + im^2 > (r*d)^2, r > 0
AbsGt(z, r) ==
    LET a == Abs(z.re) * r.d
        b == Abs(z.im) * r.d
        T == r.n * z.d
    IN  \/ a > T
        \/ b > T
        \/ /\ b > 0
           /\ FracGt(b, T + a, T - a, b)

\* ---- the iterated function ----------------------------------------------
\* f(z) = z*z + c
f(z, c) ==
    LET d2 == z.d * z.d
        L  == Lcm(d2, c.d)
    IN  Complex((z.re * z.re - z.im * z.im) * (L \div d2) + c.re * (L \div c.d),
                (2 * z.re * z.im) * (L \div d2) + c.im * (L \div c.d),
                L)

\* the while loop of checkz entered with counter n: the value returned and
\* the number of applications of f made from here on
RECURSIVE checkz_loop(_, _, _, _, _)
checkz_loop(z, c, r, max_iter, n) ==
    IF n <= max_iter
    THEN LET z1 == f(z, c)
         IN  IF AbsGt(z1, r)
             THEN [ret |-> n, fcalls |-> 1]
             ELSE LET rest == checkz_loop(z1, c, r, max_iter, n + 1)
                  IN  [ret |-> rest.ret, fcalls |-> rest.fcalls + 1]
    ELSE [ret |-> 0, fcalls |-> 0]

\* checkz with the loop run once more ("while n <= max_iter + 1")
checkz_LoopOnePastCap(z, c, r, max_iter) == checkz_loop(z, c, r, max_iter + 1, 1)

\* checkz counting from zero ("n = 0; while n < max_iter")
checkz_CountFromZero(z, c, r, max_iter) == checkz_loop(z, c, r, max_iter - 1, 0)

checkz(z, c, r, max_iter) == checkz_loop(z, c, r, max_iter, 1)

\* ---- real arithmetic of the colour step ----------------------------------
\* numpy's nan, the result of 0/0
NaN == [n |-> 0, d |-> 0]
IsNaN(a) == a.d = 0

RAdd(a, b) == Real(a.n * b.d + b.n * a.d, a.d * b.d)
RSub(a, b) == Real(a.n * b.d - b.n * a.d, a.d * b.d)
RMul(a, b) == Real(a.n * b.n, a.d * b.d)
RGt(a, b)  == a.n * b.d > b.n * a.d
One  == Real(1, 1)
Zero == Real(0, 1)

\* ---- the inputs ----------------------------------------------------------
\* c = 0, -2, 2j, 6j, -0.75: |c| = 0, 2, 2, 6, 3/4 and r = 1, 2, 2, 3, 3/2
Cs == { Complex(0, 0, 1), Complex(-2, 0, 1), Complex(0, 2, 1),
        Complex(0, 6, 1), Complex(-3, 0, 4) }

\* --offset values: 0, the default 0.67, and 1
Offsets == { Real(0, 1), Real(67, 100), Real(1, 1) }

\* (c, resolution, iters): every combination within the bounds, and the
\* run c = 0, resolution 4, iters 10
Inputs ==
    { <<cc, R, m>> : cc \in Cs, R \in 1..MaxRes, m \in 1..MaxIter }
        \cup { <<Complex(0, 0, 1), 4, 10>> }

\* ---- the state -----------------------------------------------------------
VARIABLES
    c,              \* args.c
    r,              \* the escape radius
    resolution,     \* args.resolution
    max_iter,       \* args.iters
    colour,         \* args.colour: the default 'false' or True
    hue_offset,     \* args.offset
    xpixel, ypixel, \* the counters of the compute loops
    pixels,         \* the escape grid, a float array: pixels[row][column]
    colour_pixels,  \* the array of the colour step, <<>> before it
    image,          \* the array the writer is given, <<>> before that
    pc,             \* "compute", "colour", "write", "done" or "error"
    writes,         \* writes[row][column]: assignments made to that cell
    tests,          \* tests[row][column]: calls of checkz made for that pixel
    last            \* the last call of checkz: its pixel, start point and
                    \* result, and the calls of f it made

vars == <<c, r, resolution, max_iter, colour, hue_offset, xpixel, ypixel,
          pixels, colour_pixels, image, pc, writes, tests, last>>

x_res == resolution
y_res == resolution

x0 == -2
x1 == 2
y0 == -2
y1 == 2

\* r = (1 + math.sqrt(1 + 4 * abs(c))) / 2
EscapeRadius(cc) ==
    RMul(RAdd(One, Sqrt(RAdd(One, RMul(Real(4, 1), CAbs(cc))))), Real(1, 2))

\* x = x0 + (x1 - x0) * xpixel / x_res   (true division)
PixelX(xp) == Real(x0 * x_res + (x1 - x0) * xp, x_res)
\* y = y0 + (y1 - y0) * ypixel / y_res
PixelY(yp) == Real(y0 * y_res + (y1 - y0) * yp, y_res)

\* z = x + 1j * y
StartPoint(x, y) == Complex(x.n * y.d, y.n * x.d, x.d * y.d)

\* "if y < 0: continue"
\* the test written "if y <= 0"
SkipTest_Positive(y) == y.n <= 0
SkipTest(y) == y.n < 0

\* element i of an axis of length n, a negative i counting from the end
Index(i, n) == IF i < 0 THEN n + i ELSE i

\* the cell addressed by pixels[-ypixel, -xpixel]
\* the same written pixels[-ypixel, xpixel], pixels[ypixel, -xpixel] and
\* pixels[y_res - 1 - ypixel, x_res - 1 - xpixel]
MirrorCell_SameColumn(yp, xp) == <<Index(-yp, y_res), xp>>
MirrorCell_SameRow(yp, xp) == <<yp, Index(-xp, x_res)>>
MirrorCell_Flip(yp, xp) == <<y_res - 1 - yp, x_res - 1 - xp>>
MirrorCell(yp, xp) == <<Index(-yp, y_res), Index(-xp, x_res)>>

Cells == (0..(y_res - 1)) \X (0..(x_res - 1))
\* numpy.zeros((y_res, x_res)), and the same of counters
ZeroGrid == [y \in 0..(y_res - 1) |-> [x \in 0..(x_res - 1) |-> Zero]]
NoCounts == [y \in 0..(y_res - 1) |-> [x \in 0..(x_res - 1) |-> 0]]

Init ==
    /\ \E in \in Inputs :
          /\ c = in[1]
          /\ resolution = in[2]
          /\ max_iter = in[3]
    /\ r = EscapeRadius(c)
    /\ \/ colour = "false" /\ hue_offset = Real(67, 100)
       \/ colour = "True" /\ hue_offset \in Offsets
    /\ xpixel = 0
    /\ ypixel = 0
    /\ pixels = ZeroGrid
    /\ colour_pixels = <<>>
    /\ image = <<>>
    /\ pc = "compute"
    /\ writes = NoCounts
    /\ tests = NoCounts
    /\ last = [called |-> FALSE, yp |-> 0, xp |-> 0, z |-> Complex(0, 0, 1),
               ret |-> 0, fcalls |-> 0]

\* the step of "for xpixel ... for ypixel ...": the next pixel, or the end
Advance ==
    /\ ypixel' = IF ypixel + 1 < y_res THEN ypixel + 1 ELSE 0
    /\ xpixel' = IF ypixel + 1 < y_res THEN xpixel ELSE xpixel + 1
    /\ pc' = IF ypixel + 1 < y_res \/ xpixel + 1 < x_res THEN "compute" ELSE "colour"

\* a pass of the loop body that ends at "continue"
SkipPixel ==
    /\ pc = "compute"
    /\ SkipTest(PixelY(ypixel))
    /\ Advance
    /\ UNCHANGED <<c, r, resolution, max_iter, colour, hue_offset, pixels,
                   colour_pixels, image, writes, tests, last>>

\* a pass of the loop body that tests the pixel and stores the result twice
EvalPixel ==
    /\ pc = "compute"
    /\ ~SkipTest(PixelY(ypixel))
    /\ LET z   == StartPoint(PixelX(xpixel), PixelY(ypixel))
           res == checkz(z, c, r, max_iter)
           pix == res.ret
           m   == MirrorCell(ypixel, xpixel)
           p1  == [pixels EXCEPT ![ypixel][xpixel] = Real(pix, 1)]
           w1  == [writes EXCEPT ![ypixel][xpixel] = @ + 1]
       IN  /\ pixels' = [p1 EXCEPT ![m[1]][m[2]] = Real(pix, 1)]
           /\ writes' = [w1 EXCEPT ![m[1]][m[2]] = @ + 1]
           /\ tests' = [tests EXCEPT ![ypixel][xpixel] = @ + 1]
           /\ last' = [called |-> TRUE, yp |-> ypixel, xp |-> xpixel, z |-> z,
                        ret |-> pix, fcalls |-> res.fcalls]
    /\ Advance
    /\ UNCHANGED <<c, r, resolution, max_iter, colour, hue_offset, colour_pixels,
                   image>>

\* ---- the colour step ------------------------------------------------------
RECURSIVE MaxOver(_, _)
MaxOver(g, cells) ==
    IF cells = {} THEN Zero
    ELSE LET cell == CHOOSE q \in cells : TRUE
             rest == MaxOver(g, cells \ {cell})
         IN  IF RGt(g[cell[1]][cell[2]], rest) THEN g[cell[1]][cell[2]] ELSE rest

\* numpy.amax(pixels)
amax(g) == MaxOver(g, Cells)

\* an element of numpy.divide(pixels, m): a / m, and nan for 0 / 0
Divide(a, m) == IF m = Zero THEN NaN ELSE Real(a.n * m.d, a.d * m.n)

Black == <<Zero, Zero, Zero>>

\* colorsys.hsv_to_rgb(h, s, v) for a number h >= 0
hsv_to_rgb(h, s, v) ==
    IF s = Zero THEN <<v, v, v>>
    ELSE LET h6 == RMul(h, Real(6, 1))
             i  == h6.n \div h6.d
             ff == RSub(h6, Real(i, 1))
             p  == RMul(v, RSub(One, s))
             q  == RMul(v, RSub(One, RMul(s, ff)))
             t  == RMul(v, RSub(One, RMul(s, RSub(One, ff))))
         IN  CASE i % 6 = 0 -> <<v, t, p>>
               [] i % 6 = 1 -> <<q, v, p>>
               [] i % 6 = 2 -> <<p, v, t>>
               [] i % 6 = 3 -> <<p, q, v>>
               [] i % 6 = 4 -> <<t, p, v>>
               [] i % 6 = 5 -> <<v, p, q>>

\* the body of the colour loops for a pixel of value p raises: nan == 0 is
\* false, and hsv_to_rgb computes int(nan * 6.0)
Raises(p) == IsNaN(p)

\* the colour the loops store for a pixel of value p (a number)
PixelColour(p, offset) ==
    IF p = Zero THEN Black
    ELSE LET hue == RAdd(p, offset)
         IN  hsv_to_rgb(IF RGt(hue, One) THEN RSub(hue, One) ELSE hue,
                        One, Real(1, 2))

\* "if args.colour is True": normalise, then colour every pixel; the name
\* pixels is rebound to the colour array, which image stands for
ColourImage ==
    /\ pc = "colour"
    /\ colour = "True"
    /\ LET m    == amax(pixels)
           norm == [y \in 0..(y_res - 1) |->
                      [x \in 0..(x_res - 1) |-> Divide(pixels[y][x], m)]]
       IN  IF \E cell \in Cells : Raises(norm[cell[1]][cell[2]])
           THEN /\ pixels' = norm
                /\ colour_pixels' =
                       [y \in 0..(y_res - 1) |-> [x \in 0..(x_res - 1) |-> Black]]
                /\ image' = image
                /\ pc' = "error"
           ELSE /\ pixels' = norm
                /\ colour_pixels' =
                       [y \in 0..(y_res - 1) |->
                          [x \in 0..(x_res - 1) |-> PixelColour(norm[y][x], hue_offset)]]
                /\ image' = colour_pixels'
                /\ pc' = "write"
    /\ UNCHANGED <<c, r, resolution, max_iter, colour, hue_offset, xpixel, ypixel,
                   writes, tests, last>>

\* args.colour is not True: the grid goes to the writer as it is
GreyImage ==
    /\ pc = "colour"
    /\ colour # "True"
    /\ image' = pixels
    /\ pc' = "write"
    /\ UNCHANGED <<c, r, resolution, max_iter, colour, hue_offset, xpixel, ypixel,
                   pixels, colour_pixels, writes, tests, last>>

\* pixels = numpy.flipud(pixels) of the array the name then denotes, saved
\* by imsave (--smooth, a library filter, is not modelled)
WriteImage ==
    /\ pc = "write"
    /\ image' = [y \in 0..(y_res - 1) |-> image[y_res - 1 - y]]
    /\ pc' = "done"
    /\ UNCHANGED <<c, r, resolution, max_iter, colour, hue_offset, xpixel, ypixel,
                   pixels, colour_pixels, writes, tests, last>>

Next ==
    \/ SkipPixel
    \/ EvalPixel
    \/ ColourImage
    \/ GreyImage
    \/ WriteImage

Spec == Init /\ [][Next]_vars

\* ---- checkz on its own ----------------------------------------------------
\* start points: the points x0 + (x1 - x0)*j/R + i*(y0 + (y1 - y0)*k/R) of the
\* grids of resolution 1..MaxRes (rows of y < 0 included) and of their
\* continuation beyond the plot window
Points ==
    { Complex(x0 * R + (x1 - x0) * xp, y0 * R + (y1 - y0) * yp, R) :
          R \in 1..MaxRes, xp \in 0..(MaxRes - 1), yp \in 0..(MaxRes - 1) }

\* cutoffs r > 0: the escape radii of Cs and others
Radii == { Real(1, 2), Real(1, 1), Real(3, 2), Real(2, 1), Real(5, 2), Real(3, 1) }

\* a call checkz(z, c, r, max_iter) about to be made, with any arguments
InitCheckz ==
    /\ c \in Cs
    /\ r \in Radii
    /\ max_iter \in 1..MaxIter
    /\ \E z \in Points :
          last = [called |-> FALSE, yp |-> 0, xp |-> 0, z |-> z, ret |-> 0, fcalls |-> 0]
    /\ pc = "call"
    /\ resolution = 1
    /\ colour = "false"
    /\ hue_offset = Real(67, 100)
    /\ xpixel = 0
    /\ ypixel = 0
    /\ pixels = ZeroGrid
    /\ colour_pixels = <<>>
    /\ image = <<>>
    /\ writes = NoCounts
    /\ tests = NoCounts

\* the call returns
CallCheckz ==
    /\ pc = "call"
    /\ LET res == checkz(last.z, c, r, max_iter)
       IN  last' = [last EXCEPT !.called = TRUE, !.ret = res.ret, !.fcalls = res.fcalls]
    /\ pc' = "returned"
    /\ UNCHANGED <<c, r, resolution, max_iter, colour, hue_offset, xpixel, ypixel,
                   pixels, colour_pixels, image, writes, tests>>

SpecCheckz == InitCheckz /\ [][CallCheckz]_vars

\* ---- notions the properties are stated with -------------------------------
\* the compute loops have run to completion and nothing has touched the grid
Finished == pc = "colour"

\* z_k of the trajectory z_0 = z, z_k = f(z_(k-1))
RECURSIVE Traj(_, _, _)
Traj(z, cc, k) == IF k = 0 THEN z ELSE f(Traj(z, cc, k - 1), cc)

\* |z_k| > r on the trajectory started at z
Escapes(z, k) == AbsGt(Traj(z, c, k), r)

\* the escape count held by cell (row y, column x) of the escape grid
G(y, x) == pixels[y][x].n

\* the point the coordinate mapping gives cell (row y, column x)
OwnPoint(y, x) == StartPoint(PixelX(x), PixelY(y))

RECURSIVE SumOver(_, _)
SumOver(g, cells) ==
    IF cells = {} THEN 0
    ELSE LET cell == CHOOSE q \in cells : TRUE
         IN  g[cell[1]][cell[2]] + SumOver(g, cells \ {cell})

\* the number of calls of checkz made so far
TotalTests == SumOver(tests, Cells)

\* ---- the properties ---------------------------------------------------------

C2_LeastEscape ==
    last.called =>
        /\ last.ret \in 0..max_iter
        /\ \A k \in 1..(last.ret - 1) : ~Escapes(last.z, k)
        /\ last.ret > 0 => Escapes(last.z, last.ret)
        /\ last.ret = 0 => \A k \in 1..max_iter : ~Escapes(last.z, k)
        /\ (c = Complex(0, 0, 1) /\ last.z = Complex(0, 0, 1)) => last.ret = 0
        /\ (c = Complex(0, 0, 1) /\ r = One /\ AbsGt(last.z, One)) => last.ret = 1

\* C2 witness: a call that returned 2: the first iterate is within r and the
\* second is not
C2_Witness ==
    /\ last.called
    /\ last.ret = 2
    /\ ~Escapes(last.z, 1)
    /\ Escapes(last.z, 2)

\* C3: the finished grid is symmetric under the point reflection
\* (y, x) -> ((R - y) mod R, (R - x) mod R).
C3_Symmetry ==
    Finished =>
        \A cell \in Cells :
            G(cell[1], cell[2]) =
                G((y_res - cell[1]) % y_res, (x_res - cell[2]) % x_res)

\* C3 witness: a finished grid of even resolution whose self-mirrored row R/2
\* holds different values in columns 0 and 1, and whose row R - 1 does too
C3_Witness ==
    /\ Finished
    /\ resolution = 4
    /\ G(2, 0) # G(2, 1)
    /\ G(3, 1) # G(3, 2)

\* C4: a nonzero cell n of the finished grid is the first escape of the
\* trajectory of that cell's own point: |z_n| > r and |z_k| <= r for k < n.
C4_Claim ==
    Finished =>
        \A cell \in Cells :
            G(cell[1], cell[2]) > 0 =>
                /\ \A k \in 1..(G(cell[1], cell[2]) - 1) :
                       ~Escapes(OwnPoint(cell[1], cell[2]), k)
                /\ Escapes(OwnPoint(cell[1], cell[2]), G(cell[1], cell[2]))

\* C5: a cell of the finished grid is 0 only if the trajectory of its own
\* point does not exceed r on any iteration 1..max_iter.
C5_Claim ==
    Finished =>
        \A cell \in Cells :
            G(cell[1], cell[2]) = 0 =>
                \A k \in 1..max_iter : ~Escapes(OwnPoint(cell[1], cell[2]), k)

\* C6 as stated: every grid cell is assigned at most once, for every R.
C6_Claim ==
    \A cell \in Cells : writes[cell[1]][cell[2]] <= 1

\* C6 amended: every cell outside the self-mirrored row R/2 is assigned at
\* most once, and a cell of row R/2 at most twice; when the loops end, row 0
\* has had no assignment, row R/2 two per cell and every other row one.
C6_WriteOnceOffMiddleRow ==
    \A cell \in Cells :
        /\ writes[cell[1]][cell[2]] <= (IF 2 * cell[1] = y_res THEN 2 ELSE 1)
        /\ Finished =>
               writes[cell[1]][cell[2]] =
                   (IF cell[1] = 0 THEN 0 ELSE IF 2 * cell[1] = y_res THEN 2 ELSE 1)

\* C6 witness: a finished grid of odd resolution, all of whose cells below
\* row 0 were assigned exactly once
C6_Witness ==
    /\ Finished
    /\ resolution = 5
    /\ \A cell \in Cells : cell[1] > 0 => writes[cell[1]][cell[2]] = 1

\* C7: with colour on, the colour step maps every cell of escape count 0 to
\* black without raising; so an all-zero grid gives an all-black image.
C7_Claim ==
    [][(pc = "colour" /\ colour = "True") =>
          \A cell \in Cells :
              G(cell[1], cell[2]) = 0 =>
                  /\ pc' = "write"
                  /\ colour_pixels'[cell[1]][cell[2]] = Black]_vars

\* C8 as stated: c = 0, R = 4, max_iter = 10 finishes with an all-zero grid.
C8_Claim ==
    (Finished /\ c = Complex(0, 0, 1) /\ resolution = 4 /\ max_iter = 10) =>
        pixels = ZeroGrid

\* C8 amended: c = 0, R = 4, max_iter = 10 finishes with the grid
\* 0000 / 1101 / 1000 / 1101 (rows 0..3).
C8_Grid ==
    (Finished /\ c = Complex(0, 0, 1) /\ resolution = 4 /\ max_iter = 10) =>
        LET rows == << <<0, 0, 0, 0>>, <<1, 1, 0, 1>>,
                       <<1, 0, 0, 0>>, <<1, 1, 0, 1>> >>
        IN  \A cell \in Cells : G(cell[1], cell[2]) = rows[cell[1] + 1][cell[2] + 1]

\* C8 witness: that run, finished
C8_Witness ==
    /\ Finished
    /\ c = Complex(0, 0, 1)
    /\ resolution = 4
    /\ max_iter = 10
    /\ last.called

\* the result of the call just made is held by the pixel's cell and by its
\* mirror cell ((R - ypixel) mod R, (R - xpixel) mod R)
StoredInBoth ==
    (last.called /\ pc \in {"compute", "colour"}) =>
        /\ G(last.yp, last.xp) = last.ret
        /\ G((y_res - last.yp) % y_res, (x_res - last.xp) % x_res) = last.ret

\* the per-pixel part of C9: checkz is called once for a pixel of y >= 0 and
\* never for a pixel of y < 0
TestedOncePerUpperPixel ==
    \A cell \in Cells :
        tests[cell[1]][cell[2]] = (IF PixelY(cell[1]).n >= 0 THEN 1 ELSE 0)

\* C9 as stated: ... and the number of escape tests is R*R/2.
C9_Claim ==
    /\ StoredInBoth
    /\ Finished =>
           /\ TestedOncePerUpperPixel
           /\ 2 * TotalTests = x_res * y_res

\* C9 amended: ... and the number of escape tests is R * floor(R/2), which is
\* R*R/2 when R is even and (R*R - R)/2 when R is odd.
C9_HalfTheRows ==
    /\ StoredInBoth
    /\ \A cell \in Cells : tests[cell[1]][cell[2]] <= 1
    /\ \A cell \in Cells : PixelY(cell[1]).n < 0 => tests[cell[1]][cell[2]] = 0
    /\ Finished =>
           /\ TestedOncePerUpperPixel
           /\ TotalTests = x_res * (y_res \div 2)

\* C9 witness: a finished run of odd resolution
C9_Witness ==
    /\ Finished
    /\ resolution = 3
    /\ TotalTests = 3

\* C10: no assignment targets row 0, so row 0 of the grid stays zero; for
\* R = 1 checkz is never called and the grid is the single cell 0.
C10_RowZeroUntouched ==
    /\ \A x \in 0..(x_res - 1) : writes[0][x] = 0
    /\ pc \in {"compute", "colour"} => \A x \in 0..(x_res - 1) : G(0, x) = 0
    /\ resolution = 1 => ~last.called /\ TotalTests = 0

\* C10 witness: a finished grid with nonzero cells in row R - 1 and row 1
C10_Witness ==
    /\ Finished
    /\ resolution >= 2
    /\ G(y_res - 1, 0) > 0
    /\ G(1, 0) > 0
    /\ \A x \in 0..(x_res - 1) : G(0, x) = 0

====
